---- MODULE Spec2Model ----
(***************************************************************************)
(* A model of eventify: Event / Hook (src/src/event.rs) and Property /     *)
(* guards / bindings (src/src/property.rs).                                *)
(*                                                                         *)
(* One Event and one Property are modelled, used by a small set of caller  *)
(* threads.  A callback is identified with the Hook (or binding) that      *)
(* registered it: every hook() call allocates a fresh Arc, and removal     *)
(* compares by Arc::ptr_eq.                                                *)
(***************************************************************************)
EXTENDS Naturals, Sequences, FiniteSets

\* ---------------------------------------------------------------- bounds
NumThreads == 2
MaxHooks == 3

MaxBindings == 2
MaxCommits == 2

Threads == 1..NumThreads
HookId == 1..MaxHooks
BindingId == 1..MaxBindings
NoThread == 0
NoHook == 0
NoBinding == 0

VARIABLES
  \* ---- event.rs
  eventAlive,   \* the Event value (the only long-lived strong Arc) exists
  innerAlive,   \* the Mutex<EventInner> allocation exists (strong count > 0)
  callbacks,    \* EventInner.callbacks, a Vec of callback Arcs
  mutex,        \* the thread holding Event.inner's MutexGuard, or NoThread
  poisoned,     \* the Mutex's poison flag
  hookSt,       \* per Hook: "unused" | "creating" | "failed" | "active"
                \*   | "dropping" | "leaked"
                \*   | "dropped" (destructor went through the lock)
                \*   | "dropped_stale" (destructor found the Event's state gone)
  hookData,     \* per Hook: Hook.data is Some
  pc,           \* per thread: position inside an Event / Hook call
  cur,          \* per thread: the Hook the current call is about
  idx,          \* per thread: position of invoke's for loop (1-based)
  calls,        \* per thread: callbacks called by its current invocation
  holds,        \* per thread: holds an upgraded Arc of the EventInner
  res           \* per thread: outcome of its last call: "ok" | "panic"

VARIABLES
  \* ---- property.rs
  propAlive,      \* the Property value (one strong Arc of its state) exists
  valueIsUnit,    \* the Property's type parameter T is ()
  prop_value,     \* PropertyData.value
  prop_callbacks, \* PropertyData.callbacks, a Vec of callback Arcs
  writer,         \* the thread holding the RwLock's write guard, or NoThread
  readers,        \* the threads holding a read guard of the RwLock
  prop_poisoned,  \* the RwLock's poison flag
  bSt,            \* per binding: "unused" | "failed" | "binding" | "active"
                  \*              | "unbinding" | "dropped" | "leaked"
  bKind,          \* per binding: "none" | "ro" (bind) | "rw" (bind_mut)
  bThread,        \* per binding: the thread that called bind / bind_mut for it
  ppc,            \* per thread: position inside a Property / binding call
  pcur,           \* per thread: the binding the current call or guard is of
  pres,           \* per thread: outcome of its last call:
                  \*             "ok" | "poisoned" | "panic"
  rec,            \* per binding: the values its callback was called with
  commits         \* the number of write guards dropped so far

evars == <<eventAlive, innerAlive, callbacks, mutex, poisoned, hookSt,
           hookData, pc, cur, idx, calls, holds, res>>

pvars == <<propAlive, valueIsUnit, prop_value, prop_callbacks, writer, readers,
           prop_poisoned, bSt, bKind, bThread, ppc, pcur, pres, rec,
           commits>>

vars == <<evars, pvars>>

\* ------------------------------------------------------------ event.rs
\* Arc strong count of Event.inner: the Event itself plus every upgrade
\* currently held by a Hook drop in progress.
strong_count == (IF eventAlive THEN 1 ELSE 0)
                + Cardinality({t \in Threads : holds[t]})

\* Weak::upgrade of EventHookData.inner succeeds while the allocation lives.
upgrade_inner == innerAlive

\* a lock that never blocks
lock_never_blocks == TRUE

\* Mutex::lock blocks until no thread holds the guard.
lock_acquirable == mutex = NoThread

\* a push that stores the callback twice
push_twice(cbs, h) == Append(Append(cbs, h), h)

\* Vec::push
push(cbs, h) == Append(cbs, h)

\* a retain that removes nothing
retain_nothing(cbs, handler) == cbs

\* a retain with the test inverted: keeps only the handler
retain_inverted(cbs, handler) == SelectSeq(cbs, LAMBDA h : h = handler)

\* a removal in the manner of Vec::swap_remove: the last entry takes the
\* place of the removed one
retain_swap_remove(cbs, handler) ==
  LET i == CHOOSE j \in 1..Len(cbs) : cbs[j] = handler
  IN  [k \in 1..(Len(cbs) - 1) |-> IF k = i THEN cbs[Len(cbs)] ELSE cbs[k]]

\* Vec::retain(|h| !Arc::ptr_eq(h, &handler))
retain(cbs, handler) == SelectSeq(cbs, LAMBDA h : h # handler)

\* a loop that walks the Vec from its end
callback_at_reversed(cbs, i) == cbs[Len(cbs) + 1 - i]

\* the element the for loop of invoke visits at step i
callback_at(cbs, i) == cbs[i]

\* an is_alive that only looks at the Hook's own data
is_alive_data_only(h) == hookData[h]

\* Hook::is_alive
is_alive(h) == IF hookData[h] THEN strong_count > 0 ELSE FALSE

Range(s) == {s[i] : i \in 1..Len(s)}

InEventCall(t) ==
  \/ pc[t] \in {"hook_lock", "invoke_lock", "invoke_iter", "invoke_unwind"}
  \/ mutex = t

\* Dropping one strong Arc of the EventInner held by thread t (or by the
\* Event when t = NoThread): the last one frees the allocation and with it
\* the Vec of callbacks.
ReleaseInner(t, cbs) ==
  LET left == (IF eventAlive /\ t # NoThread THEN 1 ELSE 0)
              + Cardinality({u \in Threads : holds[u] /\ u # t})
  IN  /\ innerAlive' = (left > 0)
      /\ callbacks' = IF left > 0 THEN cbs ELSE <<>>

\* Event::new
EventInit ==
  /\ eventAlive = TRUE
  /\ innerAlive = TRUE
  /\ callbacks = <<>>
  /\ mutex = NoThread
  /\ poisoned = FALSE
  /\ hookSt = [h \in HookId |-> "unused"]
  /\ hookData = [h \in HookId |-> FALSE]
  /\ pc = [t \in Threads |-> "idle"]
  /\ cur = [t \in Threads |-> NoHook]
  /\ idx = [t \in Threads |-> 0]
  /\ calls = [t \in Threads |-> <<>>]
  /\ holds = [t \in Threads |-> FALSE]
  /\ res = [t \in Threads |-> "ok"]

\* Property::new(0), for a Property<()> (unit) or a Property of integers
PropertyInit(unit) ==
  /\ propAlive = TRUE
  /\ valueIsUnit = unit
  /\ prop_value = 0
  /\ prop_callbacks = <<>>
  /\ writer = NoThread
  /\ readers = {}
  /\ prop_poisoned = FALSE
  /\ bSt = [b \in BindingId |-> "unused"]
  /\ bKind = [b \in BindingId |-> "none"]
  /\ bThread = [b \in BindingId |-> NoThread]
  /\ ppc = [t \in Threads |-> "idle"]
  /\ pcur = [t \in Threads |-> NoBinding]
  /\ pres = [t \in Threads |-> "ok"]
  /\ rec = [b \in BindingId |-> <<>>]
  /\ commits = 0

Init == EventInit /\ \E unit \in BOOLEAN : PropertyInit(unit)

\* the Event in use, beside a Property that is left alone
InitEventOnly == EventInit /\ PropertyInit(FALSE)

\* Event::hook: the callback is boxed into a fresh Arc, then hook_internal
\* is entered and waits for the lock.
hook(t) ==
  /\ pc[t] = "idle"
  /\ UNCHANGED pvars
  /\ eventAlive
  /\ \E h \in HookId :
       /\ hookSt[h] = "unused"
       /\ \A g \in HookId : hookSt[g] = "unused" => h <= g
       /\ hookSt' = [hookSt EXCEPT ![h] = "creating"]
       /\ cur' = [cur EXCEPT ![t] = h]
  /\ pc' = [pc EXCEPT ![t] = "hook_lock"]
  /\ UNCHANGED <<eventAlive, innerAlive, callbacks, mutex, poisoned,
                 hookData, idx, calls, holds, res>>

\* Event::hook_internal once the lock is granted: unwrap panics on a
\* poisoned lock, otherwise the callback is pushed and the Hook returned.
hook_internal(t) ==
  /\ pc[t] = "hook_lock"
  /\ UNCHANGED pvars
  /\ lock_acquirable
  /\ IF poisoned
       THEN /\ hookSt' = [hookSt EXCEPT ![cur[t]] = "failed"]
            /\ res' = [res EXCEPT ![t] = "panic"]
            /\ UNCHANGED <<callbacks, hookData>>
       ELSE /\ callbacks' = push(callbacks, cur[t])
            /\ hookSt' = [hookSt EXCEPT ![cur[t]] = "active"]
            /\ hookData' = [hookData EXCEPT ![cur[t]] = TRUE]
            /\ res' = [res EXCEPT ![t] = "ok"]
  /\ pc' = [pc EXCEPT ![t] = "idle"]
  /\ cur' = [cur EXCEPT ![t] = NoHook]
  /\ UNCHANGED <<eventAlive, innerAlive, mutex, poisoned, idx, calls, holds>>

\* Event::invoke is entered and waits for the lock.
invoke(t) ==
  /\ pc[t] = "idle"
  /\ UNCHANGED pvars
  /\ eventAlive
  /\ pc' = [pc EXCEPT ![t] = "invoke_lock"]
  /\ UNCHANGED <<eventAlive, innerAlive, callbacks, mutex, poisoned, hookSt,
                 hookData, cur, idx, calls, holds, res>>

\* self.inner.lock().unwrap() of invoke.
invoke_lock(t) ==
  /\ pc[t] = "invoke_lock"
  /\ UNCHANGED pvars
  /\ lock_acquirable
  /\ IF poisoned
       THEN /\ pc' = [pc EXCEPT ![t] = "idle"]
            /\ res' = [res EXCEPT ![t] = "panic"]
            /\ UNCHANGED <<mutex, idx>>
       ELSE /\ mutex' = t
            /\ pc' = [pc EXCEPT ![t] = "invoke_iter"]
            /\ idx' = [idx EXCEPT ![t] = 1]
            /\ UNCHANGED res
  /\ UNCHANGED <<eventAlive, innerAlive, callbacks, poisoned, hookSt,
                 hookData, cur, calls, holds>>

\* One iteration of invoke's for loop: the callback is called and either
\* returns or panics.
invoke_callback(t) ==
  /\ pc[t] = "invoke_iter"
  /\ UNCHANGED pvars
  /\ idx[t] <= Len(callbacks)
  /\ calls' = [calls EXCEPT ![t] = Append(@, callback_at(callbacks, idx[t]))]
  /\ \/ /\ idx' = [idx EXCEPT ![t] = @ + 1]
        /\ pc' = pc
     \/ /\ pc' = [pc EXCEPT ![t] = "invoke_unwind"]
        /\ idx' = idx
  /\ UNCHANGED <<eventAlive, innerAlive, callbacks, mutex, poisoned, hookSt,
                 hookData, cur, holds, res>>

\* One iteration of invoke's for loop whose callback calls hook on the same
\* Event: hook_internal locks the Mutex its own thread holds.  That lock
\* call does not return: it blocks for ever or it panics.
callback_hook(t) ==
  /\ pc[t] = "invoke_iter"
  /\ UNCHANGED pvars
  /\ idx[t] <= Len(callbacks)
  /\ calls' = [calls EXCEPT ![t] = Append(@, callback_at(callbacks, idx[t]))]
  /\ \E h \in HookId :
       /\ hookSt[h] = "unused"
       /\ \A g \in HookId : hookSt[g] = "unused" => h <= g
       /\ \/ /\ hookSt' = [hookSt EXCEPT ![h] = "creating"]
             /\ cur' = [cur EXCEPT ![t] = h]
             /\ pc' = [pc EXCEPT ![t] = "hook_lock"]
          \/ /\ hookSt' = [hookSt EXCEPT ![h] = "failed"]
             /\ cur' = cur
             /\ pc' = [pc EXCEPT ![t] = "invoke_unwind"]
  /\ UNCHANGED <<eventAlive, innerAlive, callbacks, mutex, poisoned,
                 hookData, idx, holds, res>>

\* One iteration whose callback calls invoke on the same Event.
callback_invoke(t) ==
  /\ pc[t] = "invoke_iter"
  /\ UNCHANGED pvars
  /\ idx[t] <= Len(callbacks)
  /\ calls' = [calls EXCEPT ![t] = Append(@, callback_at(callbacks, idx[t]))]
  /\ \/ pc' = [pc EXCEPT ![t] = "invoke_lock"]
     \/ pc' = [pc EXCEPT ![t] = "invoke_unwind"]
  /\ UNCHANGED <<eventAlive, innerAlive, callbacks, mutex, poisoned, hookSt,
                 hookData, cur, idx, holds, res>>

\* One iteration whose callback drops Hook h of the same Event: the
\* destructor upgrades inner (the Event is alive) and locks the Mutex.
callback_drop(t, h) ==
  /\ pc[t] = "invoke_iter"
  /\ UNCHANGED pvars
  /\ idx[t] <= Len(callbacks)
  /\ hookSt[h] = "active"
  /\ upgrade_inner
  /\ calls' = [calls EXCEPT ![t] = Append(@, callback_at(callbacks, idx[t]))]
  /\ \/ /\ holds' = [holds EXCEPT ![t] = TRUE]
        /\ cur' = [cur EXCEPT ![t] = h]
        /\ hookSt' = [hookSt EXCEPT ![h] = "dropping"]
        /\ pc' = [pc EXCEPT ![t] = "drop_lock"]
        /\ UNCHANGED hookData
     \/ /\ hookSt' = [hookSt EXCEPT ![h] = "dropped"]
        /\ hookData' = [hookData EXCEPT ![h] = FALSE]
        /\ pc' = [pc EXCEPT ![t] = "invoke_unwind"]
        /\ UNCHANGED <<holds, cur>>
  /\ UNCHANGED <<eventAlive, innerAlive, callbacks, mutex, poisoned, idx,
                 res>>

\* an unwinding that releases the lock without poisoning it
invoke_unwind_unpoisoned(t) ==
  /\ pc[t] = "invoke_unwind"
  /\ UNCHANGED pvars
  /\ mutex' = NoThread
  /\ pc' = [pc EXCEPT ![t] = "idle"]
  /\ idx' = [idx EXCEPT ![t] = 0]
  /\ calls' = [calls EXCEPT ![t] = <<>>]
  /\ res' = [res EXCEPT ![t] = "panic"]
  /\ UNCHANGED <<eventAlive, innerAlive, callbacks, poisoned, hookSt,
                 hookData, cur, holds>>

\* A callback panicked: unwinding drops the MutexGuard, which poisons and
\* releases the lock.
invoke_unwind(t) ==
  /\ pc[t] = "invoke_unwind"
  /\ UNCHANGED pvars
  /\ mutex' = NoThread
  /\ poisoned' = TRUE
  /\ pc' = [pc EXCEPT ![t] = "idle"]
  /\ idx' = [idx EXCEPT ![t] = 0]
  /\ calls' = [calls EXCEPT ![t] = <<>>]
  /\ res' = [res EXCEPT ![t] = "panic"]
  /\ UNCHANGED <<eventAlive, innerAlive, callbacks, hookSt, hookData, cur,
                 holds>>

\* The for loop is exhausted: the guard is dropped and invoke returns.
invoke_return(t) ==
  /\ pc[t] = "invoke_iter"
  /\ UNCHANGED pvars
  /\ idx[t] > Len(callbacks)
  /\ mutex' = NoThread
  /\ pc' = [pc EXCEPT ![t] = "idle"]
  /\ idx' = [idx EXCEPT ![t] = 0]
  /\ calls' = [calls EXCEPT ![t] = <<>>]
  /\ res' = [res EXCEPT ![t] = "ok"]
  /\ UNCHANGED <<eventAlive, innerAlive, callbacks, poisoned, hookSt,
                 hookData, cur, holds>>

\* Hook::leak: data.take(), after which the destructor finds None.
leak(t, h) ==
  /\ pc[t] = "idle"
  /\ UNCHANGED pvars
  /\ hookSt[h] = "active"
  /\ hookData' = [hookData EXCEPT ![h] = FALSE]
  /\ hookSt' = [hookSt EXCEPT ![h] = "leaked"]
  /\ res' = [res EXCEPT ![t] = "ok"]
  /\ UNCHANGED <<eventAlive, innerAlive, callbacks, mutex, poisoned, pc, cur,
                 idx, calls, holds>>

\* a destructor that takes the locked path whatever upgrade() says
drop_upgrade_unchecked(t, h) ==
  /\ pc[t] = "idle"
  /\ UNCHANGED pvars
  /\ hookSt[h] = "active"
  /\ holds' = [holds EXCEPT ![t] = TRUE]
  /\ pc' = [pc EXCEPT ![t] = "drop_lock"]
  /\ cur' = [cur EXCEPT ![t] = h]
  /\ hookSt' = [hookSt EXCEPT ![h] = "dropping"]
  /\ UNCHANGED <<eventAlive, innerAlive, callbacks, mutex, poisoned, idx,
                 calls, res, hookData>>

\* impl Drop for Hook, up to the lock: data is Some, inner.upgrade() either
\* fails (nothing is done) or yields a strong Arc and the lock is awaited.
drop_upgrade(t, h) ==
  /\ pc[t] = "idle"
  /\ UNCHANGED pvars
  /\ hookSt[h] = "active"
  /\ IF upgrade_inner
       THEN /\ holds' = [holds EXCEPT ![t] = TRUE]
            /\ pc' = [pc EXCEPT ![t] = "drop_lock"]
            /\ cur' = [cur EXCEPT ![t] = h]
            /\ hookSt' = [hookSt EXCEPT ![h] = "dropping"]
            /\ UNCHANGED <<res, hookData>>
       ELSE /\ hookSt' = [hookSt EXCEPT ![h] = "dropped_stale"]
            /\ hookData' = [hookData EXCEPT ![h] = FALSE]
            /\ res' = [res EXCEPT ![t] = "ok"]
            /\ UNCHANGED <<holds, pc, cur>>
  /\ UNCHANGED <<eventAlive, innerAlive, callbacks, mutex, poisoned, idx,
                 calls>>

\* impl Drop for Hook once the lock is granted: unwrap panics on a poisoned
\* lock; otherwise handler.upgrade() and retain.  Either way the guard and
\* the upgraded Arc are dropped on the way out.
drop_locked(t) ==
  /\ pc[t] = "drop_lock"
  /\ UNCHANGED pvars
  /\ lock_acquirable
  /\ IF poisoned
       THEN /\ ReleaseInner(t, callbacks)
            /\ res' = [res EXCEPT ![t] = "panic"]
       ELSE /\ ReleaseInner(t, IF cur[t] \in Range(callbacks)
                                 THEN retain(callbacks, cur[t])
                                 ELSE callbacks)
            /\ res' = [res EXCEPT ![t] = "ok"]
  /\ holds' = [holds EXCEPT ![t] = FALSE]
  /\ hookSt' = [hookSt EXCEPT ![cur[t]] = "dropped"]
  /\ hookData' = [hookData EXCEPT ![cur[t]] = FALSE]
  /\ pc' = [pc EXCEPT ![t] = "idle"]
  /\ cur' = [cur EXCEPT ![t] = NoHook]
  /\ UNCHANGED <<eventAlive, mutex, poisoned, idx, calls>>

\* The Event goes out of scope: no call on it is in progress (they borrow
\* it); its Arc is dropped.
event_drop(t) ==
  /\ pc[t] = "idle"
  /\ UNCHANGED pvars
  /\ eventAlive
  /\ \A u \in Threads : ~InEventCall(u)
  /\ eventAlive' = FALSE
  /\ ReleaseInner(NoThread, callbacks)
  /\ UNCHANGED <<mutex, poisoned, hookSt, hookData, pc, cur, idx, calls,
                 holds, res>>

EventNext ==
  \E t \in Threads :
    \/ hook(t)
    \/ hook_internal(t)
    \/ invoke(t)
    \/ invoke_lock(t)
    \/ invoke_callback(t)
    \/ callback_hook(t)
    \/ callback_invoke(t)
    \/ \E h \in HookId : callback_drop(t, h)
    \/ invoke_unwind(t)
    \/ invoke_return(t)
    \/ event_drop(t)
    \/ \E h \in HookId : leak(t, h)
    \/ \E h \in HookId : drop_upgrade(t, h)
    \/ drop_locked(t)

EventSpec == InitEventOnly /\ [][EventNext]_vars

\* --------------------------------------------------------- property.rs
\* the values of type T
PValues == IF valueIsUnit THEN {0} ELSE {0, 5, 7}

\* a read lock that never blocks
read_never_blocks == TRUE

\* RwLock::read blocks while a write guard is held.
read_acquirable == writer = NoThread

\* a write lock that does not wait for the readers
write_ignores_readers == writer = NoThread

\* RwLock::write blocks while any guard is held.
write_acquirable == writer = NoThread /\ readers = {}

\* RwLock::read / RwLock::write once granted: Err(PoisonError) on a
\* poisoned lock, Ok otherwise; the guard is inside either.
lock_result == IF prop_poisoned THEN "poisoned" ELSE "ok"

\* a map_lock_result that unwraps the guard out of the error
map_lock_result_into_inner(result) == "ok"

\* map_lock_result: Ok(guard) is mapped to Ok, Err(e) to a new PoisonError
\* around the mapped guard.
map_lock_result(result) ==
  CASE result = "ok" -> "ok"
    [] result = "poisoned" -> "poisoned"

\* box_callback: its body is unimplemented!(), which panics.
box_callback == "panic"

\* PropertyData::add_callback
add_callback(cbs, b) == Append(cbs, b)

\* PropertyData::remove_callback
remove_callback(cbs, b) == SelectSeq(cbs, LAMBDA c : c # b)

\* PropertyData::invoke_all_callbacks: the callbacks it calls, in order
invoke_all_callbacks(cbs) == cbs

\* PropertyData::invoke_excluding: the callbacks it calls, in order
invoke_excluding(cbs, excluded) == SelectSeq(cbs, LAMBDA c : c # excluded)

\* impl Drop for ReadonlyBinding<()> / ReadWriteBinding<()>: the destructor
\* exists for T = () only.
binding_has_drop == valueIsUnit

\* Arc strong count of Property.inner: the Property itself plus the
\* BindingData of every binding that still has one.
prop_strong_count ==
  (IF propAlive THEN 1 ELSE 0)
  + Cardinality({b \in BindingId : bSt[b] \in {"active", "unbinding"}})

\* Dropping one strong Arc of the PropertyData: the last one frees the
\* allocation and with it the Vec of callbacks.
ReleasePropertyData(cbs) ==
  prop_callbacks' = IF prop_strong_count > 1 THEN cbs ELSE <<>>

\* no guard borrows binding b
Unborrowed(b) == \A u \in Threads : pcur[u] # b

\* write guards held or awaited
WritesInFlight == Cardinality({u \in Threads :
                                 ppc[u] \in {"write_wait", "writing"}})

FreshBinding(b) ==
  /\ bSt[b] = "unused"
  /\ \A c \in BindingId : bSt[c] = "unused" => b <= c

\* Property::read is entered and waits for the lock.
Property_read(t) ==
  /\ ppc[t] = "idle"
  /\ UNCHANGED evars
  /\ propAlive
  /\ ppc' = [ppc EXCEPT ![t] = "read_wait"]
  /\ UNCHANGED <<propAlive, valueIsUnit, prop_value, prop_callbacks, writer, readers,
                 prop_poisoned, bSt, bKind, bThread, pcur, pres, rec, commits>>

\* self.inner.read() is granted; map_lock_result wraps the guard, inside
\* Ok or inside the PoisonError.
read_lock(t) ==
  /\ ppc[t] = "read_wait"
  /\ UNCHANGED evars
  /\ read_acquirable
  /\ readers' = readers \cup {t}
  /\ ppc' = [ppc EXCEPT ![t] = "reading"]
  /\ pres' = [pres EXCEPT ![t] = map_lock_result(lock_result)]
  /\ UNCHANGED <<propAlive, valueIsUnit, prop_value, prop_callbacks, writer,
                 prop_poisoned, bSt, bKind, bThread, pcur, rec, commits>>

\* a read guard whose drop notifies like a write guard's
read_guard_drop_notifies(t) ==
  /\ ppc[t] = "reading"
  /\ UNCHANGED evars
  /\ readers' = readers \ {t}
  /\ ppc' = [ppc EXCEPT ![t] = "idle"]
  /\ pcur' = [pcur EXCEPT ![t] = NoBinding]
  /\ rec' = [b \in BindingId |->
               IF \E i \in 1..Len(prop_callbacks) : prop_callbacks[i] = b
                 THEN Append(rec[b], prop_value) ELSE rec[b]]
  /\ UNCHANGED <<propAlive, valueIsUnit, prop_value, prop_callbacks, writer,
                 prop_poisoned, bSt, bKind, bThread, pres, commits>>

\* A PropertyReadGuard / BindingReadGuard is dropped: neither has a
\* destructor of its own, the RwLockReadGuard inside releases the lock.
read_guard_drop(t) ==
  /\ ppc[t] = "reading"
  /\ UNCHANGED evars
  /\ readers' = readers \ {t}
  /\ ppc' = [ppc EXCEPT ![t] = "idle"]
  /\ pcur' = [pcur EXCEPT ![t] = NoBinding]
  /\ UNCHANGED <<propAlive, valueIsUnit, prop_value, prop_callbacks, writer,
                 prop_poisoned, bSt, bKind, bThread, pres, rec, commits>>

\* Property::write is entered and waits for the lock.
Property_write(t) ==
  /\ ppc[t] = "idle"
  /\ UNCHANGED evars
  /\ propAlive
  /\ commits + WritesInFlight < MaxCommits
  /\ ppc' = [ppc EXCEPT ![t] = "write_wait"]
  /\ UNCHANGED <<propAlive, valueIsUnit, prop_value, prop_callbacks, writer, readers,
                 prop_poisoned, bSt, bKind, bThread, pcur, pres, rec, commits>>

\* self.inner.write() / property.write() is granted; map_lock_result wraps
\* the guard, inside Ok or inside the PoisonError.
write_lock(t) ==
  /\ ppc[t] = "write_wait"
  /\ UNCHANGED evars
  /\ write_acquirable
  /\ writer' = t
  /\ ppc' = [ppc EXCEPT ![t] = "writing"]
  /\ pres' = [pres EXCEPT ![t] = map_lock_result(lock_result)]
  /\ UNCHANGED <<propAlive, valueIsUnit, prop_value, prop_callbacks, readers,
                 prop_poisoned, bSt, bKind, bThread, pcur, rec, commits>>

\* PropertyWriteGuard::get_mut / BindingWriteGuard::get_mut: the holder
\* stores a value.
get_mut(t, v) ==
  /\ ppc[t] = "writing"
  /\ UNCHANGED evars
  /\ v \in PValues
  /\ v # prop_value
  /\ prop_value' = v
  /\ UNCHANGED <<propAlive, valueIsUnit, prop_callbacks, writer, readers, prop_poisoned,
                 bSt, bKind, bThread, ppc, pcur, pres, rec, commits>>

\* impl Drop for PropertyWriteGuard / BindingWriteGuard.  The callbacks are
\* called in order with the value; n of them are called: all of them,
\* unless one panics.  panics says that the n-th callback panicked or that
\* the guard is dropped by a thread that is already unwinding.  The
\* RwLockWriteGuard inside is still held when the destructor's body ends.
write_guard_drop(t) ==
  /\ ppc[t] = "writing"
  /\ UNCHANGED evars
  /\ LET list == IF pcur[t] = NoBinding
                   THEN invoke_all_callbacks(prop_callbacks)
                   ELSE invoke_excluding(prop_callbacks, pcur[t])
     IN \E n \in 0..Len(list), panics \in BOOLEAN :
          /\ n = 0 => list = <<>>
          /\ n < Len(list) => panics
          /\ rec' = [b \in BindingId |->
                       IF \E i \in 1..n : list[i] = b
                         THEN Append(rec[b], prop_value) ELSE rec[b]]
          /\ pres' = [pres EXCEPT ![t] = IF panics THEN "panic" ELSE "ok"]
  /\ commits' = commits + 1
  /\ ppc' = [ppc EXCEPT ![t] = "write_unlock"]
  /\ UNCHANGED <<propAlive, valueIsUnit, prop_value, prop_callbacks, writer,
                 readers, prop_poisoned, bSt, bKind, bThread, pcur>>

\* The guard's field, the RwLockWriteGuard, is dropped after the
\* destructor's body: the lock is released, and poisoned when that happens
\* during a panic.
write_unlock(t) ==
  /\ ppc[t] = "write_unlock"
  /\ UNCHANGED evars
  /\ writer' = NoThread
  /\ prop_poisoned' = (prop_poisoned \/ pres[t] = "panic")
  /\ ppc' = [ppc EXCEPT ![t] = "idle"]
  /\ pcur' = [pcur EXCEPT ![t] = NoBinding]
  /\ UNCHANGED <<propAlive, valueIsUnit, prop_value, prop_callbacks, readers,
                 bSt, bKind, bThread, pres, rec, commits>>

\* Property::bind (kind "ro") / Property::bind_mut (kind "rw"): the
\* callback goes through box_callback, and what it returns is handed to
\* bind_internal / bind_mut_internal.
bind(t, kind) ==
  /\ ppc[t] = "idle"
  /\ UNCHANGED evars
  /\ propAlive
  /\ \E b \in BindingId :
       /\ FreshBinding(b)
       /\ bThread' = [bThread EXCEPT ![b] = t]
       /\ IF box_callback = "panic"
            THEN /\ bSt' = [bSt EXCEPT ![b] = "failed"]
                 /\ pres' = [pres EXCEPT ![t] = "panic"]
                 /\ UNCHANGED <<ppc, pcur, bKind>>
            ELSE /\ bSt' = [bSt EXCEPT ![b] = "binding"]
                 /\ bKind' = [bKind EXCEPT ![b] = kind]
                 /\ ppc' = [ppc EXCEPT ![t] = "bind_wait"]
                 /\ pcur' = [pcur EXCEPT ![t] = b]
                 /\ UNCHANGED pres
  /\ UNCHANGED <<propAlive, valueIsUnit, prop_value, prop_callbacks, writer, readers,
                 prop_poisoned, rec, commits>>

\* The Property goes out of scope: its Arc of the PropertyData is dropped.
\* No guard of the Property itself is out and no call on it is running,
\* since they borrow it; guards of bindings borrow the binding.
Property_drop(t) ==
  /\ ppc[t] = "idle"
  /\ UNCHANGED evars
  /\ propAlive
  /\ \A u \in Threads :
       \/ ppc[u] = "idle"
       \/ pcur[u] # NoBinding /\ ppc[u] # "bind_wait"
  /\ propAlive' = FALSE
  /\ ReleasePropertyData(prop_callbacks)
  /\ UNCHANGED <<valueIsUnit, prop_value, writer, readers, prop_poisoned,
                 bSt, bKind, bThread, ppc, pcur, pres, rec, commits>>

PropNext ==
  \E t \in Threads :
    \/ Property_read(t)
    \/ read_lock(t)
    \/ read_guard_drop(t)
    \/ Property_write(t)
    \/ write_lock(t)
    \/ \E v \in {0, 5, 7} : get_mut(t, v)
    \/ write_guard_drop(t)
    \/ write_unlock(t)
    \/ \E kind \in {"ro", "rw"} : bind(t, kind)
    \/ Property_drop(t)

\* The Property as its public operations drive it.
PropSpec == Init /\ [][PropNext]_vars

\* bind_internal (kind "ro") / bind_mut_internal (kind "rw") entered with a
\* callback that is already boxed; it waits for the write lock.
bind_internal_call(t, kind) ==
  /\ ppc[t] = "idle"
  /\ UNCHANGED evars
  /\ propAlive
  /\ \E b \in BindingId :
       /\ FreshBinding(b)
       /\ bKind' = [bKind EXCEPT ![b] = kind]
       /\ bSt' = [bSt EXCEPT ![b] = "binding"]
       /\ pcur' = [pcur EXCEPT ![t] = b]
  /\ ppc' = [ppc EXCEPT ![t] = "bind_wait"]
  /\ UNCHANGED <<propAlive, valueIsUnit, prop_value, prop_callbacks, writer, readers,
                 prop_poisoned, bThread, pres, rec, commits>>

\* bind_internal / bind_mut_internal once the write lock is granted:
\* unwrap panics on a poisoned lock, otherwise the callback is added and
\* the binding returned; the lock guard is a temporary.
bind_internal(t) ==
  /\ ppc[t] = "bind_wait"
  /\ UNCHANGED evars
  /\ write_acquirable
  /\ IF prop_poisoned
       THEN /\ bSt' = [bSt EXCEPT ![pcur[t]] = "failed"]
            /\ pres' = [pres EXCEPT ![t] = "panic"]
            /\ UNCHANGED prop_callbacks
       ELSE /\ prop_callbacks' = add_callback(prop_callbacks, pcur[t])
            /\ bSt' = [bSt EXCEPT ![pcur[t]] = "active"]
            /\ pres' = [pres EXCEPT ![t] = "ok"]
  /\ ppc' = [ppc EXCEPT ![t] = "idle"]
  /\ pcur' = [pcur EXCEPT ![t] = NoBinding]
  /\ UNCHANGED <<propAlive, valueIsUnit, prop_value, writer, readers, prop_poisoned,
                 bKind, bThread, rec, commits>>

\* ReadonlyBinding::read / ReadWriteBinding::read is entered and waits for
\* the lock.
Binding_read(t, b) ==
  /\ ppc[t] = "idle"
  /\ UNCHANGED evars
  /\ bSt[b] = "active"
  /\ ppc' = [ppc EXCEPT ![t] = "read_wait"]
  /\ pcur' = [pcur EXCEPT ![t] = b]
  /\ UNCHANGED <<propAlive, valueIsUnit, prop_value, prop_callbacks, writer, readers,
                 prop_poisoned, bSt, bKind, bThread, pres, rec, commits>>

\* ReadWriteBinding::write is entered and waits for the lock.
Binding_write(t, b) ==
  /\ ppc[t] = "idle"
  /\ UNCHANGED evars
  /\ bSt[b] = "active"
  /\ bKind[b] = "rw"
  /\ commits + WritesInFlight < MaxCommits
  /\ ppc' = [ppc EXCEPT ![t] = "write_wait"]
  /\ pcur' = [pcur EXCEPT ![t] = b]
  /\ UNCHANGED <<propAlive, valueIsUnit, prop_value, prop_callbacks, writer, readers,
                 prop_poisoned, bSt, bKind, bThread, pres, rec, commits>>

\* ReadonlyBinding::leak / ReadWriteBinding::leak: inner.take(), after
\* which a destructor finds None.
Binding_leak(t, b) ==
  /\ ppc[t] = "idle"
  /\ UNCHANGED evars
  /\ bSt[b] = "active"
  /\ Unborrowed(b)
  /\ bSt' = [bSt EXCEPT ![b] = "leaked"]
  /\ pres' = [pres EXCEPT ![t] = "ok"]
  /\ ReleasePropertyData(prop_callbacks)
  /\ UNCHANGED <<propAlive, valueIsUnit, prop_value, writer, readers,
                 prop_poisoned, bKind, bThread, ppc, pcur, rec, commits>>

\* A binding goes out of scope.  Where the destructor exists it calls
\* BindingData::unbind, which waits for the write lock; elsewhere only the
\* fields are dropped.
Binding_drop(t, b) ==
  /\ ppc[t] = "idle"
  /\ UNCHANGED evars
  /\ bSt[b] = "active"
  /\ Unborrowed(b)
  /\ IF binding_has_drop
       THEN /\ bSt' = [bSt EXCEPT ![b] = "unbinding"]
            /\ ppc' = [ppc EXCEPT ![t] = "unbind_wait"]
            /\ pcur' = [pcur EXCEPT ![t] = b]
            /\ UNCHANGED <<pres, prop_callbacks>>
       ELSE /\ bSt' = [bSt EXCEPT ![b] = "dropped"]
            /\ pres' = [pres EXCEPT ![t] = "ok"]
            /\ ReleasePropertyData(prop_callbacks)
            /\ UNCHANGED <<ppc, pcur>>
  /\ UNCHANGED <<propAlive, valueIsUnit, prop_value, writer, readers,
                 prop_poisoned, bKind, bThread, rec, commits>>

\* BindingData::unbind once the write lock is granted: unwrap panics on a
\* poisoned lock, otherwise remove_callback.  The binding's fields are
\* dropped after it, its Arc of the PropertyData among them.
unbind(t) ==
  /\ ppc[t] = "unbind_wait"
  /\ UNCHANGED evars
  /\ write_acquirable
  /\ IF prop_poisoned
       THEN /\ pres' = [pres EXCEPT ![t] = "panic"]
            /\ ReleasePropertyData(prop_callbacks)
       ELSE /\ ReleasePropertyData(remove_callback(prop_callbacks, pcur[t]))
            /\ pres' = [pres EXCEPT ![t] = "ok"]
  /\ bSt' = [bSt EXCEPT ![pcur[t]] = "dropped"]
  /\ ppc' = [ppc EXCEPT ![t] = "idle"]
  /\ pcur' = [pcur EXCEPT ![t] = NoBinding]
  /\ UNCHANGED <<propAlive, valueIsUnit, prop_value, writer, readers, prop_poisoned,
                 bKind, bThread, rec, commits>>

BindingNext ==
  \E t \in Threads :
    \/ \E kind \in {"ro", "rw"} : bind_internal_call(t, kind)
    \/ bind_internal(t)
    \/ \E b \in BindingId : Binding_read(t, b)
    \/ \E b \in BindingId : Binding_write(t, b)
    \/ \E b \in BindingId : Binding_leak(t, b)
    \/ \E b \in BindingId : Binding_drop(t, b)
    \/ unbind(t)

\* The Property with bind_internal / bind_mut_internal as entry points.
PropInternalNext == PropNext \/ BindingNext

PropInternalSpec == Init /\ [][PropInternalNext]_vars

\* ------------------------------------------------------ properties: Event
Dropped(h) == hookSt[h] \in {"dropped", "dropped_stale"}

\* thread t calls the callback of Hook h in this step
CallStep(t, h) == calls'[t] = Append(calls[t], h)

\* thread t returns normally from invoke in this step
InvokeReturns(t) == pc[t] = "invoke_iter" /\ pc'[t] = "idle"

\* C1: an invocation calls the registered callbacks exactly once each and
\* in registration order: at every point of the loop the callbacks called
\* so far are the first idx-1 entries of the list, so that when the loop is
\* exhausted, before invoke returns, they are the whole list.
C1_InvokeCallsAllInOrder ==
  \A t \in Threads :
    pc[t] = "invoke_iter" =>
      /\ idx[t] \in 1..(Len(callbacks) + 1)
      /\ calls[t] = SubSeq(callbacks, 1, idx[t] - 1)

C1_Witness ==
  \E t \in Threads :
    /\ pc[t] = "invoke_iter"
    /\ idx[t] > Len(callbacks)
    /\ Len(calls[t]) >= 2
    /\ \E h \in HookId : hookSt[h] = "dropped"

\* C2: once a Hook that was not leaked has been dropped, no invocation
\* calls its callback any more.
C2_DroppedNeverCalled ==
  [][\A h \in HookId : hookSt[h] = "dropped" =>
        \A t \in Threads : ~CallStep(t, h)]_vars

C2_Witness ==
  \E t \in Threads, h \in HookId :
    /\ hookSt[h] = "dropped"
    /\ eventAlive /\ ~poisoned
    /\ pc[t] = "invoke_iter"
    /\ idx[t] > Len(callbacks)
    /\ calls[t] # <<>>

\* C3: leak removes nothing from the registry, and every invocation that
\* returns afterwards has called the leaked Hook's callback, whatever other
\* Hooks were created, dropped or leaked in between.
C3_LeakedAlwaysCalled ==
  [][/\ \A h \in HookId :
          hookSt[h] = "active" /\ hookSt'[h] = "leaked" =>
            /\ callbacks' = callbacks
            /\ innerAlive => h \in Range(callbacks)
     /\ \A t \in Threads :
          InvokeReturns(t) =>
            \A h \in HookId : hookSt[h] = "leaked" => h \in Range(calls[t])
    ]_vars

C3_Witness ==
  \E t \in Threads, h, g \in HookId :
    /\ hookSt[h] = "leaked"
    /\ hookSt[g] = "dropped"
    /\ h < g
    /\ pc[t] = "invoke_iter"
    /\ idx[t] > Len(callbacks)
    /\ h \in Range(calls[t])

\* C6: the callbacks of two invocations never interleave: whenever a thread
\* calls a callback, no other thread is between the first callback of an
\* invocation of its own and the end of that invocation.
C6_InvocationsDoNotInterleave ==
  [][\A t \in Threads, h \in HookId :
        CallStep(t, h) =>
          \A u \in Threads \ {t} :
            /\ calls[u] = <<>> /\ calls'[u] = <<>>
            /\ pc[u] # "invoke_iter"]_vars

C6_Witness ==
  \E t, u \in Threads :
    /\ t # u
    /\ pc[t] = "invoke_iter"
    /\ calls[t] # <<>>
    /\ idx[t] <= Len(callbacks)
    /\ pc[u] = "invoke_lock"

InInvoke(t) == mutex = t

\* C15: the callback list does not change during an invocation: while a
\* thread is inside invoke no step changes the list, and no hook call or
\* Hook drop started by another thread completes; they take effect only
\* after the invocation has ended.
C15_ListFixedDuringInvoke ==
  [][(\E t \in Threads : InInvoke(t)) =>
        /\ callbacks' = callbacks
        /\ \A u \in Threads :
             (~InInvoke(u) /\ pc[u] \in {"hook_lock", "drop_lock"}) =>
               /\ pc'[u] = pc[u]
               /\ hookSt'[cur[u]] = hookSt[cur[u]]
    ]_vars

C15_Witness ==
  \E t, u \in Threads :
    /\ pc[t] = "invoke_iter"
    /\ calls[t] # <<>>
    /\ idx[t] <= Len(callbacks)
    /\ pc[u] = "drop_lock"
    /\ cur[u] \in Range(callbacks)

\* thread t, inside invoke, has had a callback call back into the Event
\* and waits for the lock it holds itself
Reentered(t) ==
  /\ mutex = t
  /\ pc[t] \in {"hook_lock", "invoke_lock", "drop_lock"}

Registered == {h \in HookId : hookSt[h] \in {"active", "dropping", "leaked"}}

\* the list holds exactly the Hooks of Registered, each once
ListIsRegistered ==
  /\ Range(callbacks) = Registered
  /\ Len(callbacks) = Cardinality(Registered)

Others(cbs, h) == SelectSeq(cbs, LAMBDA x : x # h)

\* C19: dropping a Hook removes only that Hook's own callback: through
\* every step of the destructor the other entries of the list stay, in the
\* same order (as long as the list exists), and a destructor that runs
\* through the lock leaves no entry of its Hook.
C19_DropRemovesOnlyOwn ==
  [][\A h \in HookId :
        ( /\ hookSt[h] \in {"active", "dropping"}
          /\ hookSt'[h] \in {"dropping", "dropped", "dropped_stale"}
          /\ hookSt'[h] # hookSt[h] )
        => /\ innerAlive' => Others(callbacks', h) = Others(callbacks, h)
           /\ (hookSt[h] = "dropping" /\ ~poisoned) =>
                h \notin Range(callbacks')
    ]_vars

C19_Witness ==
  \E t \in Threads :
    /\ hookSt[1] = "dropped"
    /\ callbacks = <<2, 3>>
    /\ pc[t] = "invoke_iter"
    /\ calls[t] = callbacks
    /\ ~poisoned

\* C20: a callback that panics during invoke ends the invocation there:
\* the thread calls no further callback, the lock is left poisoned and the
\* list is as it was.  The lock stays poisoned, and from then on every hook,
\* invoke and Hook drop that reaches the lock panics instead of running: no
\* callback is called and the list, while it exists, is not modified.
C20_PanicPoisonsEvent ==
  [][/\ \A t \in Threads :
          (pc[t] = "invoke_unwind" /\ pc'[t] # "invoke_unwind") =>
            /\ pc'[t] = "idle"
            /\ res'[t] = "panic"
            /\ poisoned'
            /\ callbacks' = callbacks
            /\ \A h \in HookId : ~CallStep(t, h)
     /\ poisoned =>
          /\ poisoned'
          /\ innerAlive' => callbacks' = callbacks
          /\ \A t \in Threads, h \in HookId : ~CallStep(t, h)
          /\ \A t \in Threads :
               (pc[t] \in {"hook_lock", "invoke_lock", "drop_lock"}
                /\ pc'[t] # pc[t]) =>
                 /\ pc'[t] = "idle"
                 /\ res'[t] = "panic"
                 /\ pc[t] = "hook_lock" => hookSt'[cur[t]] = "failed"
    ]_vars

C20_Witness ==
  \E f, d \in HookId :
    /\ eventAlive /\ poisoned
    /\ hookSt[f] = "failed"
    /\ hookSt[d] = "dropped" /\ d \in Range(callbacks)
    /\ \A t \in Threads : pc[t] = "idle" /\ res[t] = "panic"

\* --------------------------------------------------- properties: Property
\* a write guard is dropped in this step (one commit)
CommitStep == commits' = commits + 1

\* Callback b is bound as far as thread t can tell: its token exists, or t
\* itself has called bind / bind_mut for it on a Property whose lock was
\* not poisoned.
BoundByContract(t, b) ==
  \/ bSt[b] \in {"active", "leaked"}
  \/ bSt[b] = "failed" /\ bThread[b] = t /\ ~prop_poisoned

\* C4: every drop of a write guard obtained from Property::write runs one
\* notification cycle that delivers the value as it is after the write to
\* every callback bound at that moment, so that a recording callback
\* receives each committed value once, in commit order.
C4_WriteNotifiesEveryBound ==
  [][(CommitStep /\ pcur[writer] = NoBinding /\ pres'[writer] = "ok") =>
        \A b \in BindingId :
          BoundByContract(writer, b) => rec'[b] = Append(rec[b], prop_value')]_vars

\* C5: the drop of a write guard obtained from a binding does not call that
\* binding's callback and calls every other bound callback once with the
\* new value; a write made through Property::write or through another
\* binding does call it.
C5_BindingWriteExcludesSelf ==
  [][(CommitStep /\ pres'[writer] = "ok") =>
        \A b \in BindingId :
          /\ (b = pcur[writer]) => rec'[b] = rec[b]
          /\ (b # pcur[writer] /\ BoundByContract(writer, b)) =>
               (Len(rec'[b]) = Len(rec[b]) + 1
                /\ rec'[b][Len(rec'[b])] = prop_value')]_vars

\* C7: on a Property whose lock is not poisoned, bind / bind_mut does not
\* fail: a bind call fails only when the lock is poisoned.
C7_BindSucceeds ==
  \A b \in BindingId : bSt[b] = "failed" => prop_poisoned

\* C8: once a binding token that was not leaked has been dropped, no write
\* committed afterwards calls its callback, whatever the value type.
C8_DroppedBindingNotCalled ==
  [][\A b \in BindingId : bSt[b] = "dropped" => rec'[b] = rec[b]]_vars

C12_PoisonedLockReportsError ==
  [][/\ prop_poisoned => prop_poisoned'
     /\ \A t \in Threads :
          ( /\ ppc[t] \in {"read_wait", "write_wait"}
            /\ ppc'[t] \in {"reading", "writing"}
            /\ pcur[t] = NoBinding )
          => pres'[t] = (IF prop_poisoned THEN "poisoned" ELSE "ok")
    ]_vars

C12_Witness ==
  \E t, u \in Threads :
    /\ t # u
    /\ prop_poisoned
    /\ ppc[t] = "reading" /\ pres[t] = "poisoned"
    /\ ppc[u] = "write_wait"

\* C13: a live Hook or binding holds only non-owning references: once the
\* owning Event or Property is destroyed (and no call on it is in flight),
\* its callback slots are gone, even while tokens are alive.
C13_TokensOwnNothing ==
  /\ (~eventAlive /\ \A t \in Threads : ~holds[t]) => callbacks = <<>>
  /\ (~propAlive /\ \A t \in Threads : ppc[t] = "idle") =>
       prop_callbacks = <<>>

\* thread t runs the notification of the write guard it drops
NotifyStep(t) == ppc[t] = "writing" /\ ppc'[t] = "write_unlock"

\* C14: the notification of a write guard's drop runs under the exclusive
\* access: the dropping thread holds the write lock before and after it and
\* no read guard is out; and a read guard is granted only while no write
\* guard is between its acquisition and the end of its notification, so no
\* reader sees a stored value whose notification is still to run.
C14_NotifyBeforeRelease ==
  [][/\ \A t \in Threads :
          NotifyStep(t) =>
            /\ writer = t /\ writer' = t
            /\ readers = {} /\ readers' = {}
     /\ \A t \in Threads :
          (ppc[t] = "read_wait" /\ ppc'[t] = "reading") =>
            \A u \in Threads : ppc[u] \notin {"writing", "write_unlock"}
    ]_vars

C14_Witness ==
  \E t \in Threads, b \in BindingId :
    /\ ppc[t] = "reading"
    /\ prop_value # 0
    /\ rec[b] # <<>>
    /\ rec[b][Len(rec[b])] = prop_value

\* thread t takes a step of a read: it asks for a read guard, is granted
\* it, or drops it
ReadStep(t) ==
  <<ppc[t], ppc'[t]>> \in {<<"idle", "read_wait">>, <<"read_wait", "reading">>,
                          <<"reading", "idle">>}

\* C17: acquiring and dropping a read guard, of the Property or of a
\* binding, calls no callback and leaves the value and the callback list
\* as they are.
C17_ReadGuardChangesNothing ==
  [][\A t \in Threads :
        ReadStep(t) =>
          /\ rec' = rec
          /\ prop_value' = prop_value
          /\ prop_callbacks' = prop_callbacks
          /\ commits' = commits
    ]_vars

C17_Witness ==
  \E t \in Threads, b \in BindingId :
    /\ ppc[t] = "reading"
    /\ pcur[t] = b
    /\ Len(prop_callbacks) >= 2
    /\ prop_value # 0
    /\ pres[t] = "ok"

====
